---- MODULE Spec2Model ----
(***************************************************************************)
(* Model of the NanoClaw L2 gateway (src/src/nanoclaw/server.py): the      *)
(* SensorBuffer (bounded deque + offline queue) and the handlers that      *)
(* drive it.  The handlers are asyncio coroutines on one event loop: the   *)
(* code between two awaits is one atomic step, and the only awaits are the *)
(* simulated uploads (server.py:156 and server.py:215).  An upload stands  *)
(* for the HTTP call to MoltClaw of server.py:151-153 and 210-212: it      *)
(* either returns or raises, which the try/except around it handles.       *)
(*                                                                         *)
(* A SensorReading is modelled by its arrival number (1 for the first      *)
(* reading ever received, 2 for the second, ...); a BatchReport by a       *)
(* record [id, readings] where id stands for the object's identity.        *)
(* Python lists are heap objects: `lists` is the heap, and a list-valued   *)
(* name (sensor_buffer.offline_queue, the local `queue`, the local         *)
(* `failed_batches`) holds an index into it.  A list that no name refers   *)
(* to any more is freed at once (reference counting).                      *)
(***************************************************************************)
EXTENDS Integers, Sequences, FiniteSets, TLC

VARIABLES
    buffer,         \* sensor_buffer.buffer : deque(maxlen = max_size)
    offline_queue,  \* sensor_buffer.offline_queue : reference to a list object
    lists,          \* the heap of list objects holding BatchReports
    batches,        \* create_batch coroutines suspended at the upload await
    retries,        \* retry_offline_queue coroutines suspended at the upload
                    \* await: their locals and the position of the list iterator
    response,       \* what the handler that ran last returned (or raised)
    result,         \* what the last direct get_readings call returned, with
                    \* its argument and the number of readings received then
    l3,             \* batches MoltClaw (L3) has accepted
    nadded,         \* number of readings received so far
    nbatches,       \* number of BatchReport objects created so far
    cleared         \* whether clear_readings has been called so far

vars == <<buffer, offline_queue, lists, batches, retries, response, result,
          l3, nadded, nbatches, cleared>>

(* ----------------------- parameters and bounds ------------------------- *)

\* the constructor arguments: the gateway runs SensorBuffer(1000, 100), the
\* model the small instance SensorBuffer(3, 2)
max_size == 3
batch_threshold == 2

MaxReadings == max_size + 1   \* readings received in one behaviour
MaxBatches == 2        \* BatchReports created in one behaviour
MaxPasses == 2         \* retry passes over a non-empty queue in one behaviour
MaxInFlight == 2       \* coroutines of one handler suspended at once
MaxCount == 4          \* largest argument of a direct clear_readings call
MaxLimit == 2          \* largest limit of a direct get_readings call

(* ---------------------------- helpers ---------------------------------- *)

Min(a, b) == IF a < b THEN a ELSE b

Range(s) == {s[i] : i \in 1..Len(s)}

\* Optional[int]: <<>> is None, <<n>> is the integer n.
None == <<>>
Limits == {None} \cup {<<n>> : n \in 0..MaxLimit}

(* ------------------------- SensorBuffer -------------------------------- *)

\* variant: a plain list, nothing is ever dropped
DequeAppendUnbounded(buf, x) == Append(buf, x)

\* variant: a full buffer rejects the new reading instead of the oldest
DequeAppendDropNewest(buf, x) ==
    IF Len(buf) >= max_size THEN buf ELSE Append(buf, x)

\* variant: appendleft() instead of append()
DequeAppendLeft(buf, x) ==
    IF Len(buf) >= max_size THEN <<x>> \o SubSeq(buf, 1, Len(buf) - 1)
    ELSE <<x>> \o buf

\* deque(maxlen=max_size).append(x): when full, the leftmost item is dropped.
DequeAppend(buf, x) ==
    IF Len(buf) >= max_size THEN Append(Tail(buf), x) ELSE Append(buf, x)

\* list(self.buffer)[:limit] for limit >= 0
Slice(buf, n) == SubSeq(buf, 1, Min(n, Len(buf)))

\* `if limit:` is false for None and for 0
Truthy(limit) == limit # None /\ limit[1] # 0

\* variant: without a limit, at most batch_threshold readings are returned
get_readings_threshold(buf, limit) ==
    IF Truthy(limit) THEN Slice(buf, limit[1]) ELSE Slice(buf, batch_threshold)

get_readings(buf, limit) ==
    IF Truthy(limit) THEN Slice(buf, limit[1]) ELSE buf

RECURSIVE PopLeft(_, _)
PopLeft(buf, k) == IF k = 0 THEN buf ELSE PopLeft(Tail(buf), k - 1)

\* variant: pop() instead of popleft(), the newest readings are removed
clear_readings_right(buf, count) ==
    SubSeq(buf, 1, Len(buf) - Min(count, Len(buf)))

\* variant: the loop runs one time too few
clear_readings_short(buf, count) ==
    PopLeft(buf, IF Min(count, Len(buf)) = 0 THEN 0
                 ELSE Min(count, Len(buf)) - 1)

\* variant: the oldest reading stays and the ones behind it are removed
clear_readings_gap(buf, count) ==
    IF buf = <<>> THEN buf
    ELSE <<Head(buf)>> \o PopLeft(Tail(buf), Min(count, Len(buf) - 1))
clear_readings(buf, count) == PopLeft(buf, Min(count, Len(buf)))

\* variant: the threshold itself does not count yet
should_batch_upload_strict(buf) == Len(buf) > batch_threshold

should_batch_upload(buf) == Len(buf) >= batch_threshold

\* self.offline_queue.append(batch): mutates the list object in place
queue_offline(heap, ref, batch) == [heap EXCEPT ![ref] = Append(@, batch)]

get_offline_queue == offline_queue

(* ----------------------- the heap of list objects ---------------------- *)

\* the list objects some name refers to: the offline queue and, for every
\* suspended retry coroutine, its locals `queue` and `failed_batches`
Refs(rs, oq) ==
    {oq} \cup {r.queue : r \in rs} \cup {r.failed_batches : r \in rs}

\* a list object without a reference is freed
Collect(heap, rs, oq) ==
    [i \in 1..Len(heap) |-> IF i \in Refs(rs, oq) THEN heap[i] ELSE <<>>]

(* --------------------------- initial state ----------------------------- *)

Init ==
    /\ buffer = <<>>
    /\ lists = << <<>> >>
    /\ offline_queue = 1
    /\ batches = {}
    /\ retries = {}
    /\ response = [status |-> "started"]
    /\ result = [readings |-> <<>>, limit |-> None, at |-> 0]
    /\ l3 = {}
    /\ nadded = 0
    /\ nbatches = 0
    /\ cleared = FALSE

(* ------------------------ POST /report --------------------------------- *)

receive_report ==
    /\ nadded < MaxReadings
    /\ nadded' = nadded + 1
    /\ buffer' = DequeAppend(buffer, nadded + 1)
    /\ response' = [status |-> "accepted", buffer_size |-> Len(buffer')]
    /\ UNCHANGED <<offline_queue, lists, batches, retries, result, l3,
                   nbatches, cleared>>

(* ------------------------ GET /buffer ---------------------------------- *)

get_buffer_status ==
    /\ response' = [buffer_size |-> Len(buffer),
                    batch_threshold |-> batch_threshold,
                    offline_queue_size |-> Len(lists[offline_queue]),
                    should_upload |-> should_batch_upload(buffer),
                    recent_readings |-> get_readings(buffer, <<10>>)]
    /\ UNCHANGED <<buffer, offline_queue, lists, batches, retries, result,
                   l3, nadded, nbatches, cleared>>

(* ------------- direct calls of the SensorBuffer methods ---------------- *)

GetReadings(limit) ==
    /\ result' = [readings |-> get_readings(buffer, limit), limit |-> limit,
                  at |-> nadded]
    /\ UNCHANGED <<buffer, offline_queue, lists, batches, retries, response,
                   l3, nadded, nbatches, cleared>>

ClearReadings(count) ==
    /\ buffer' = clear_readings(buffer, count)
    /\ cleared' = TRUE
    /\ UNCHANGED <<offline_queue, lists, batches, retries, response, result,
                   l3, nadded, nbatches>>

(* ------------------------ POST /batch ---------------------------------- *)

\* server.py:139-140: the buffer is empty, HTTP 400
CreateBatchEmpty ==
    /\ Len(buffer) = 0
    /\ response' = [status_code |-> 400, detail |-> "Buffer is empty"]
    /\ UNCHANGED <<buffer, offline_queue, lists, batches, retries, result,
                   l3, nadded, nbatches, cleared>>

\* variant: the emptiness check of server.py:139 is missing
CreateBatchSnapshotUnchecked ==
    /\ nbatches < MaxBatches
    /\ Cardinality(batches) < MaxInFlight
    /\ nbatches' = nbatches + 1
    /\ batches' = batches \cup
          {[id |-> nbatches + 1, readings |-> get_readings(buffer, None)]}
    /\ UNCHANGED <<buffer, offline_queue, lists, retries, response, result,
                   l3, nadded, cleared>>

\* variant: readings that are already part of a failed batch are left out
CreateBatchSnapshotNewOnly ==
    LET queued == UNION {Range(b.readings) :
                           b \in UNION {Range(lists[i]) : i \in DOMAIN lists}}
        fresh(x) == x \notin queued
        readings == SelectSeq(get_readings(buffer, None), fresh)
    IN  /\ Len(readings) # 0
        /\ nbatches < MaxBatches
        /\ Cardinality(batches) < MaxInFlight
        /\ nbatches' = nbatches + 1
        /\ batches' = batches \cup
              {[id |-> nbatches + 1, readings |-> readings]}
        /\ UNCHANGED <<buffer, offline_queue, lists, retries, response,
                       result, l3, nadded, cleared>>

\* server.py:143-156: build the BatchReport, then suspend at the upload
CreateBatchSnapshot ==
    /\ Len(buffer) # 0
    /\ nbatches < MaxBatches
    /\ Cardinality(batches) < MaxInFlight
    /\ nbatches' = nbatches + 1
    /\ batches' = batches \cup
          {[id |-> nbatches + 1, readings |-> get_readings(buffer, None)]}
    /\ UNCHANGED <<buffer, offline_queue, lists, retries, response, result,
                   l3, nadded, cleared>>

\* server.py:159-165: the upload returned
CreateBatchUploaded(batch) ==
    /\ batch \in batches
    /\ batches' = batches \ {batch}
    /\ l3' = l3 \cup {batch}
    /\ buffer' = clear_readings(buffer, Len(batch.readings))
    /\ cleared' = TRUE
    /\ response' = [status |-> "uploaded", batch_size |-> Len(batch.readings)]
    /\ UNCHANGED <<offline_queue, lists, retries, result, nadded, nbatches>>

\* variant: the buffer is cleared on the failure path as well
CreateBatchFailedEvicts(batch) ==
    /\ batch \in batches
    /\ batches' = batches \ {batch}
    /\ lists' = queue_offline(lists, offline_queue, batch)
    /\ buffer' = clear_readings(buffer, Len(batch.readings))
    /\ cleared' = TRUE
    /\ response' = [status_code |-> 503,
                    detail |-> "L3 unreachable, queued for retry"]
    /\ UNCHANGED <<offline_queue, retries, result, l3, nadded, nbatches>>

\* server.py:166-172: the upload raised, HTTP 503
CreateBatchFailed(batch) ==
    /\ batch \in batches
    /\ batches' = batches \ {batch}
    /\ lists' = queue_offline(lists, offline_queue, batch)
    /\ response' = [status_code |-> 503,
                    detail |-> "L3 unreachable, queued for retry"]
    /\ UNCHANGED <<buffer, offline_queue, retries, result, l3, nadded,
                   nbatches, cleared>>

\* the first step of the handler, up to its return or its first await
CreateBatchTrigger == CreateBatchEmpty \/ CreateBatchSnapshot

create_batch ==
    \/ CreateBatchEmpty
    \/ CreateBatchSnapshot
    \/ \E batch \in batches :
          CreateBatchUploaded(batch) \/ CreateBatchFailed(batch)

(* ------------------- POST /offline-queue/retry ------------------------- *)

\* server.py:201-203: nothing queued
RetryNoBatches ==
    /\ lists[get_offline_queue] = <<>>
    /\ response' = [status |-> "no_batches", uploaded |-> 0]
    /\ UNCHANGED <<buffer, offline_queue, lists, batches, retries, result,
                   l3, nadded, nbatches, cleared>>

\* server.py:201-215: take the reference, allocate failed_batches, fetch the
\* first batch from the list iterator and suspend at its upload
RetryBegin ==
    /\ lists[get_offline_queue] # <<>>
    /\ Len(lists) <= MaxPasses
    /\ Cardinality(retries) < MaxInFlight
    /\ lists' = Append(lists, <<>>)
    /\ retries' = retries \cup
          {[queue |-> get_offline_queue, idx |-> 1, uploaded_count |-> 0,
            failed_batches |-> Len(lists) + 1]}
    /\ UNCHANGED <<buffer, offline_queue, batches, response, result, l3,
                   nadded, nbatches, cleared>>

\* the batch whose upload the coroutine r is waiting for
Current(r) == lists[r.queue][r.idx]

\* server.py:216-219: the outcome of one upload, recorded in the locals
AfterUpload(r, ok) ==
    IF ok THEN [r EXCEPT !.uploaded_count = @ + 1] ELSE r

\* variant: every batch is kept, whether its upload succeeded or not
HeapAfterUploadAlways(r, ok) ==
    [lists EXCEPT ![r.failed_batches] = Append(@, Current(r))]

HeapAfterUpload(r, ok) ==
    IF ok THEN lists
    ELSE [lists EXCEPT ![r.failed_batches] = Append(@, Current(r))]

\* the list iterator of `for batch in queue` has another item
HasNext(r) == r.idx < Len(lists[r.queue])

\* server.py:208-219: one upload resolved and the loop goes on
RetryContinue(r, ok) ==
    /\ r \in retries
    /\ HasNext(r)
    /\ lists' = HeapAfterUpload(r, ok)
    /\ l3' = IF ok THEN l3 \cup {Current(r)} ELSE l3
    /\ retries' = (retries \ {r}) \cup
                     {[AfterUpload(r, ok) EXCEPT !.idx = @ + 1]}
    /\ UNCHANGED <<buffer, offline_queue, batches, response, result, nadded,
                   nbatches, cleared>>

\* server.py:208-228: the last upload resolved, the queue is replaced
RetryFinish(r, ok) ==
    /\ r \in retries
    /\ ~HasNext(r)
    /\ l3' = IF ok THEN l3 \cup {Current(r)} ELSE l3
    /\ offline_queue' = r.failed_batches
    /\ retries' = retries \ {r}
    /\ lists' = Collect(HeapAfterUpload(r, ok), retries', offline_queue')
    /\ response' = [status |-> "completed",
                    uploaded |-> AfterUpload(r, ok).uploaded_count,
                    failed |-> Len(lists'[r.failed_batches])]
    /\ UNCHANGED <<buffer, batches, result, nadded, nbatches, cleared>>

\* the first step of the handler, up to its return or its first await
RetryTrigger == RetryNoBatches \/ RetryBegin

retry_offline_queue ==
    \/ RetryNoBatches
    \/ RetryBegin
    \/ \E r \in retries, ok \in BOOLEAN :
          RetryContinue(r, ok) \/ RetryFinish(r, ok)

(* --------------------------- specifications ---------------------------- *)

\* the gateway: the requests that change its state arrive in any order and
\* overlap at the awaits
Next ==
    \/ receive_report
    \/ create_batch
    \/ retry_offline_queue

Spec == Init /\ [][Next]_vars

\* the SensorBuffer object alone, its methods called in any order, and the
\* status request that only reads it
NextBuffer ==
    \/ receive_report
    \/ get_buffer_status
    \/ \E limit \in Limits : GetReadings(limit)
    \/ \E count \in 0..MaxCount : ClearReadings(count)

SpecBuffer == Init /\ [][NextBuffer]_vars

\* no /batch and no /offline-queue/retry request is being served
Idle == batches = {} /\ retries = {}

\* the gateway when a /batch or /offline-queue/retry request is accepted
\* only after the one before has been answered
NextSolo ==
    \/ receive_report
    \/ CreateBatchEmpty
    \/ Idle /\ CreateBatchSnapshot
    \/ \E batch \in batches :
          CreateBatchUploaded(batch) \/ CreateBatchFailed(batch)
    \/ RetryNoBatches
    \/ Idle /\ RetryBegin
    \/ \E r \in retries, ok \in BOOLEAN :
          RetryContinue(r, ok) \/ RetryFinish(r, ok)

SpecSolo == Init /\ [][NextSolo]_vars

(* ------------------------------ claims --------------------------------- *)

\* the readings a step removes from the ingest buffer
Removed == Range(buffer) \ Range(buffer')

\* the contents of sensor_buffer.offline_queue
OfflineQueue == lists[offline_queue]

\* the step is the end of the /batch request for `batch`, upload succeeded
UploadSucceeded(batch) ==
    batch \in batches /\ batch \notin batches' /\ batch \in l3'

\* the step is the end of the /batch request for `batch`, upload failed
UploadFailed(batch) ==
    batch \in batches /\ batch \notin batches' /\ batch \notin l3'

\* the step is the end of the retry pass r: its list becomes the queue
PassCompletes(r) ==
    r \in retries /\ offline_queue # r.failed_batches
                  /\ offline_queue' = r.failed_batches

\* the readings of a sequence are consecutive arrivals, oldest first
Fifo(s) == \A i \in 1..(Len(s) - 1) : s[i + 1] = s[i] + 1

HasField(rec, f) == f \in DOMAIN rec

\* C1: in every reachable state of the gateway (readings arriving, status
\* reads, batch formations and retry passes overlapping in any order) the
\* ingest buffer holds at most max_size readings.
C1_BufferBounded == Len(buffer) <= max_size

\* C1 witness: the buffer is full and a reading has already been dropped
C1_Witness == Len(buffer) = max_size /\ nadded > max_size /\ batches # {}

\* C2: after n > max_size add_reading calls on the initially empty buffer,
\* with no clear_readings so far, the buffer is exactly the max_size newest
\* readings in arrival order, and the dropped ones are the n - max_size
\* oldest.
C2_KeepsNewest ==
    (~cleared /\ nadded > max_size) =>
        /\ buffer = [i \in 1..max_size |-> nadded - max_size + i]
        /\ (1..nadded) \ Range(buffer) = 1..(nadded - max_size)

\* C2 witness: one reading more than the capacity has arrived
C2_Witness ==
    ~cleared /\ nadded = max_size + 1 /\ Len(buffer) = max_size
             /\ buffer[1] = 2

\* C3: clear_readings(n) can be called for every n >= 0 on every buffer,
\* also when n exceeds the length L, and removes exactly the first
\* min(n, L) readings, leaving the others in their order.
C3_ClearFront ==
    /\ [](\A n \in 0..MaxCount : ENABLED ClearReadings(n))
    /\ [][\A n \in 0..MaxCount : ClearReadings(n) =>
            buffer' = SubSeq(buffer, Min(n, Len(buffer)) + 1, Len(buffer))]_vars

\* C3 witness: a clear removed the oldest reading and left the two after it
C3_Witness == cleared /\ nadded = 3 /\ buffer = <<2, 3>>

\* C4: when the upload of a batch succeeds, the eviction removes from the
\* ingest buffer only readings of the batch's snapshot, never a reading
\* that arrived while the upload was in flight.
C4_EvictsOnlySnapshot ==
    [][\A batch \in batches :
          UploadSucceeded(batch) => Removed \subseteq Range(batch.readings)]_vars

\* C5 as stated: after a failed upload every snapshotted reading is still
\* in the ingest buffer and the offline queue gained exactly that batch.
C5_Original ==
    [][\A batch \in batches :
          UploadFailed(batch) =>
              /\ Range(batch.readings) \subseteq Range(buffer')
              /\ lists'[offline_queue'] = Append(OfflineQueue, batch)]_vars

\* C5 amended: handling a failed upload leaves the ingest buffer as it was
\* (so every snapshotted reading that was still buffered stays buffered) and
\* appends to the offline queue exactly one batch, the snapshot, whose
\* readings are non-empty and in arrival order.
C5_FailureKeepsBuffer ==
    [][\A batch \in batches :
          UploadFailed(batch) =>
              /\ buffer' = buffer
              /\ Range(batch.readings) \cap Range(buffer)
                    \subseteq Range(buffer')
              /\ lists'[offline_queue'] = Append(OfflineQueue, batch)
              /\ batch.readings # <<>> /\ Fifo(batch.readings)
              /\ HasField(response', "status_code")
              /\ response'.status_code = 503]_vars

\* C5 witness: a failed batch is queued and its readings are still buffered
C5_Witness ==
    /\ HasField(response, "status_code") /\ response.status_code = 503
    /\ OfflineQueue # <<>>
    /\ OfflineQueue[Len(OfflineQueue)].readings = buffer
    /\ Len(buffer) >= 2

\* the batches that were appended to the offline queue while the pass r
\* was in progress and that r has not seen: r took the offline queue's list
\* when it began and lists only grow, so a batch in the offline queue that
\* is not in r's list was appended after r began
AppendedUnseen(r) == Range(OfflineQueue) \ Range(lists[r.queue])

\* C6: a batch appended to the offline queue while a retry pass is in
\* progress is not lost: when the pass completes it is in the offline queue
\* (unless an upload of it has succeeded by then).
C6_AppendedNotLost ==
    [][\A r \in retries :
          PassCompletes(r) =>
              (AppendedUnseen(r) \ l3') \subseteq Range(lists'[offline_queue'])]_vars

\* the batches of the sequence q that L3 has not accepted, in q's order
RECURSIVE NotAccepted(_, _)
NotAccepted(q, accepted) ==
    IF q = <<>> THEN <<>>
    ELSE IF Head(q) \in accepted THEN NotAccepted(Tail(q), accepted)
         ELSE <<Head(q)>> \o NotAccepted(Tail(q), accepted)

\* C7: a retry pass that runs alone leaves in the offline queue exactly the
\* batches whose upload failed, in their order, none of those whose upload
\* succeeded, and reports uploaded + failed = the length of the queue the
\* pass started with.
C7_SoloPass ==
    [][\A r \in retries :
          PassCompletes(r) =>
              /\ lists'[offline_queue'] = NotAccepted(lists[r.queue], l3')
              /\ Range(lists'[offline_queue']) \cap l3' = {}
              /\ response'.status = "completed"
              /\ response'.uploaded + response'.failed = Len(lists[r.queue])
              /\ response'.failed = Len(lists'[offline_queue'])]_vars

\* C7 witness: a pass over two batches uploaded one and kept the other
C7_Witness ==
    /\ HasField(response, "failed")
    /\ response.uploaded = 1 /\ response.failed = 1
    /\ Len(OfflineQueue) = 1 /\ Cardinality(l3) = 1
    /\ retries = {}

\* C8: a retry request on an empty offline queue (the first and any
\* repetition) reports zero uploaded and zero failed, starts no upload and
\* leaves the offline queue empty and the ingest buffer unchanged.
C8_EmptyRetry ==
    [][(OfflineQueue = <<>> /\ RetryTrigger) =>
          /\ HasField(response', "uploaded") /\ response'.uploaded = 0
          /\ HasField(response', "failed") /\ response'.failed = 0
          /\ retries' = retries /\ l3' = l3
          /\ lists'[offline_queue'] = <<>>
          /\ buffer' = buffer]_vars

\* C9: get_readings() followed by clear_readings(len(result)) leaves in the
\* ingest buffer only readings that arrived after the get_readings call,
\* and none at all when no reading arrived in between.
C9_RoundTrip ==
    [][(result.limit = None /\ ClearReadings(Len(result.readings))) =>
          /\ \A i \in 1..Len(buffer') : buffer'[i] > result.at
          /\ (nadded = result.at => buffer' = <<>>)]_vars

\* C9 witness: two readings were read, one arrived, the two were cleared
C9_Witness ==
    /\ result.limit = None /\ result.readings = <<1, 2>>
    /\ cleared /\ nadded = 3 /\ buffer = <<3>>

\* C10: a batch formation triggered on an empty ingest buffer is refused
\* with the "Buffer is empty" outcome: no batch is created, no upload is
\* started, and ingest buffer and offline queue are unchanged.
C10_EmptyRefused ==
    [][(Len(buffer) = 0 /\ CreateBatchTrigger) =>
          /\ HasField(response', "status_code")
          /\ response'.status_code = 400
          /\ response'.detail = "Buffer is empty"
          /\ nbatches' = nbatches /\ batches' = batches /\ l3' = l3
          /\ buffer' = buffer
          /\ offline_queue' = offline_queue /\ lists' = lists]_vars

\* C10 witness: the refusal was returned after readings had come and gone
C10_Witness ==
    /\ HasField(response, "status_code") /\ response.status_code = 400
    /\ buffer = <<>> /\ nadded > 0

\* C11: get_readings(limit) returns, for every integer limit >= 0 (0
\* included), exactly the first min(limit, L) readings of the buffer in
\* order, and get_readings() without a limit returns all L.
C11_LimitTruncates ==
    [][\A limit \in Limits :
          GetReadings(limit) =>
              result'.readings =
                  IF limit = None THEN buffer
                  ELSE SubSeq(buffer, 1, Min(limit[1], Len(buffer)))]_vars

\* the step is a read: a get_readings call or a status request returned
\* something new
ReadStep ==
    \/ result' # result
    \/ HasField(response', "should_upload") /\ response' # response

\* C12: get_readings and should_batch_upload only read: the ingest buffer
\* and the offline queue are the same before and after, and
\* should_batch_upload answers true exactly when the buffer holds at least
\* batch_threshold readings.
C12_ReadOnly ==
    [][ReadStep =>
          /\ buffer' = buffer
          /\ offline_queue' = offline_queue /\ lists' = lists
          /\ (response' # response =>
                 response'.should_upload = (Len(buffer) >= batch_threshold))]_vars

\* C12 witness: both reads were answered on a buffer exactly at the threshold
C12_Witness ==
    /\ HasField(response, "should_upload") /\ response.should_upload
    /\ Len(buffer) = batch_threshold
    /\ result.limit = None /\ result.readings = buffer

\* C13: a reading can be reported in every reachable state (in the model:
\* as long as fewer than MaxReadings have arrived), also while uploads are
\* in flight and when the buffer is full; the report is accepted and the
\* reading is then the last element of the ingest buffer.
C13_AddNeverBlocks ==
    /\ [](nadded < MaxReadings => ENABLED receive_report)
    /\ [][nadded' # nadded =>
            /\ nadded' = nadded + 1
            /\ buffer' # <<>> /\ buffer'[Len(buffer')] = nadded'
            /\ HasField(response', "status")
            /\ response'.status = "accepted"]_vars

\* C13 witness: a reading was accepted by a full buffer while a /batch
\* upload and a retry upload were in flight
C13_Witness ==
    /\ batches # {} /\ retries # {}
    /\ nadded > max_size /\ Len(buffer) = max_size
    /\ buffer[max_size] = nadded
    /\ HasField(response, "status") /\ response.status = "accepted"

StillRunning(r) ==
    \E r2 \in retries' : r2.failed_batches = r.failed_batches

\* C15: a retry pass attempts the upload of exactly the batches that were
\* in the offline queue when it started.  A pass ends only when its list
\* iterator is exhausted (HasNext), so it attempts every batch of the list
\* it iterates: the claim says that this list is a snapshot, to which no
\* batch is appended while the pass is in progress.
C15_PassUsesSnapshot ==
    [][\A r \in retries :
          StillRunning(r) => lists'[r.queue] = lists[r.queue]]_vars

\* the readings of s are a contiguous run of the readings ever added
ContiguousRun(s) == Fifo(s) /\ Range(s) \subseteq 1..nadded

\* C16: in every reachable state the ingest buffer is a contiguous run of
\* the sequence of all readings ever added, in insertion order, with no
\* reordering, duplicate or gap, and every snapshot get_readings returned
\* (the readings of a batch, the result of a direct call) has that order.
C16_FifoPreserved ==
    /\ ContiguousRun(buffer)
    /\ ContiguousRun(result.readings)
    /\ \A batch \in batches \cup l3 \cup Range(OfflineQueue) :
          ContiguousRun(batch.readings)

\* readings 1 and 2 were removed, one by overflow and one by a clear, and
\* a snapshot of what is left is in flight
C16_Witness ==
    /\ nadded > max_size /\ buffer = <<nadded - 1, nadded>>
    /\ l3 # {}
    /\ \E batch \in batches : batch.readings = buffer

IsPrefix(s, t) == Len(s) <= Len(t) /\ SubSeq(t, 1, Len(s)) = s

\* the batches whose upload failed in POST /batch and that still wait in
\* a list of the heap
FailedBatches == UNION {Range(lists[i]) : i \in DOMAIN lists}

\* Readings are distinct and leave the buffer at its front only, so the
\* buffer lost no reading since the snapshot of b1 (no clear_readings, no
\* overflow eviction) exactly when its oldest reading is still b1's oldest.
NothingRemovedSince(b1) == buffer # <<>> /\ buffer[1] = b1.readings[1]

\* C17: when a batch is formed after the upload of an earlier batch failed
\* and no reading left the buffer in between, the readings of the failed
\* batch are a prefix of the readings of the new batch.
C17_FailedReadingsAgain ==
    [][\A batch \in batches' \ batches :
          \A b1 \in FailedBatches :
              NothingRemovedSince(b1) => IsPrefix(b1.readings, batch.readings)]_vars

\* b1 failed and waits in the offline queue; the next batch, in flight,
\* repeats b1's readings and has one more
C17_Witness ==
    \E b1 \in Range(OfflineQueue), batch \in batches :
        /\ batch.id = b1.id + 1
        /\ IsPrefix(b1.readings, batch.readings)
        /\ Len(batch.readings) > Len(b1.readings)

\* the batches an upload can still be attempted for: those whose POST /batch
\* awaits its upload, and those in the offline queue or in a list that a
\* retry pass in progress iterates or is about to store as the queue
Offerable == batches \cup FailedBatches

\* C18: every batch that enters the offline queue is eventually uploaded,
\* given repeated retries and an uploader that eventually succeeds.  An
\* upload is only ever attempted for a batch of Offerable, so the claim
\* needs every batch formed so far to be uploaded already or to be one
\* that some retry pass can still offer to the uploader.
C18_StillOfferable ==
    \A id \in 1..nbatches : \E batch \in l3 \cup Offerable : batch.id = id

\* the batch with this id is in the offline queue or was uploaded
QueuedOrUploaded(id) ==
    \E batch \in l3 \cup Range(OfflineQueue) : batch.id = id

\* C19: under any interleaving a batch leaves the offline queue only if an
\* upload of it succeeded: every batch formed so far is still held by its
\* POST /batch, or is in the offline queue, or was uploaded successfully.
C19_NoLostUpdate ==
    \A id \in 1..nbatches :
        (\E batch \in batches : batch.id = id) \/ QueuedOrUploaded(id)

\* the readings of the batches L3 has accepted
Uploaded(accepted) == UNION {Range(batch.readings) : batch \in accepted}

\* C20: as long as fewer than max_size readings were added (the buffer
\* never overflowed), every reading that leaves the ingest buffer, also
\* under overlapping batch formations interleaved with add_reading, is a
\* reading of a batch that was uploaded successfully.
C20_ClearsOnlyUploaded ==
    [][nadded' < max_size => Removed \subseteq Uploaded(l3')]_vars

TypeOK ==
    /\ Len(buffer) \in 0..max_size
    /\ offline_queue \in 1..Len(lists)
    /\ \A i \in 1..Len(lists) :
          i \notin Refs(retries, offline_queue) => lists[i] = <<>>
====
